---- MODULE Spec2Model ----
(***************************************************************************)
(* A model of the allocation core of the-dao-vault: the staleness-tracked  *)
(* values of state.rs, the weight verifier of asset_container/rate.rs, the *)
(* Deposit instruction of instructions/deposit.rs, the fee calculation of  *)
(* state.rs and the Port refresh of adapters/port.rs.                      *)
(*                                                                         *)
(* u64 quantities are modelled as 0..MaxU64 and the U128 behind a Rate as  *)
(* 0..MaxRate; every checked operation fails exactly when its result       *)
(* leaves that range.                                                      *)
(***************************************************************************)
EXTENDS Integers, Sequences, FiniteSets, TLC

VARIABLES
    clock,      \* Clock sysvar: the current slot
    vault,      \* the Vault account (bitflags, value, config, allocations)
    tok,        \* token balances: user and vault reserve, LP supply, Port LP
    port,       \* the Port reserve account: collateral exchange rate
    stv,        \* a free-standing SlotTrackecValue (state.rs data type)
    weights,    \* a proposed AssetContainer<Rate>
    cap,        \* the allocation_cap_pct handed to verify_weights
    input,      \* the argument of the function a specification applies
    output,     \* what that function returned
    last        \* the last operation: its name, arguments and result

vars == <<clock, vault, tok, port, stv, weights, cap, input, output, last>>

----------------------------------------------------------------------------
(* Bounds of the model *)

MaxU64 == 40000
MaxSlot == 4
MaxRate == 30000

----------------------------------------------------------------------------
(* Results: Ok(v) or Err(e) *)

Ok(v) == [err |-> "Ok", val |-> v]
Err(e) == [err |-> e, val |-> 0]
ErrB(e) == [err |-> e, val |-> FALSE]
IsOk(r) == r.err = "Ok"

checked_add(a, b) == IF a + b <= MaxU64 THEN Ok(a + b) ELSE Err("None")
checked_sub_Saturating(a, b) == IF a >= b THEN Ok(a - b) ELSE Ok(0)
checked_sub(a, b) == IF a >= b THEN Ok(a - b) ELSE Err("None")
checked_mul(a, b) == IF a * b <= MaxU64 THEN Ok(a * b) ELSE Err("None")
saturating_sub(a, b) == IF a >= b THEN a - b ELSE 0

\* the record of the last operation
Op(op, slot, amount, res, out, flag) ==
    [op |-> op, slot |-> slot, amount |-> amount, res |-> res,
     out |-> out, flag |-> flag, calls |-> 0]

NoOp == Op("init", 0, 0, "Ok", 0, FALSE)

----------------------------------------------------------------------------
(* state.rs: LastUpdate and SlotTrackecValue *)

STALE_AFTER_SLOTS_ELAPSED == 2

LastUpdate_default == [slot |-> 0, stale |-> FALSE]
LastUpdate_new(slot) == [slot |-> slot, stale |-> TRUE]

slots_elapsed_Saturating(lu, slot) ==
    IF IsOk(checked_sub(slot, lu.slot))
    THEN Ok(slot - lu.slot)
    ELSE Ok(0)

slots_elapsed(lu, slot) ==
    IF IsOk(checked_sub(slot, lu.slot))
    THEN Ok(slot - lu.slot)
    ELSE Err("MathError")

update_slot(lu, slot) == [lu EXCEPT !.slot = slot, !.stale = FALSE]

mark_stale(lu) == [lu EXCEPT !.stale = TRUE]

is_stale_Late(lu, slot) ==
    IF lu.stale THEN Ok(TRUE)
    ELSE IF ~IsOk(slots_elapsed(lu, slot)) THEN ErrB("MathError")
    ELSE Ok(slots_elapsed(lu, slot).val > STALE_AFTER_SLOTS_ELAPSED)

\* self.stale || self.slots_elapsed(slot)? >= STALE_AFTER_SLOTS_ELAPSED:
\* the right operand, and its error, are evaluated only when stale is false
is_stale(lu, slot) ==
    IF lu.stale THEN Ok(TRUE)
    ELSE IF ~IsOk(slots_elapsed(lu, slot)) THEN ErrB("MathError")
    ELSE Ok(slots_elapsed(lu, slot).val >= STALE_AFTER_SLOTS_ELAPSED)

SlotTrackecValue_default == [value |-> 0, last_update |-> LastUpdate_default]

update(s, value, slot) ==
    [value |-> value, last_update |-> update_slot(s.last_update, slot)]

reset_Default(s) == SlotTrackecValue_default

reset(s) == [value |-> 0, last_update |-> mark_stale(s.last_update)]

----------------------------------------------------------------------------
(* The staleness-tracked value as a data type: every public method of      *)
(* LastUpdate and SlotTrackecValue, called with any slot and value.        *)

Slots == 0..MaxSlot
StvValues == {0, 1, MaxU64}

SV_new(slot) ==
    /\ stv' = [stv EXCEPT !.last_update = LastUpdate_new(slot)]
    /\ last' = Op("new", slot, 0, "Ok", 0, FALSE)

SV_update_slot(slot) ==
    /\ stv' = [stv EXCEPT !.last_update = update_slot(stv.last_update, slot)]
    /\ last' = Op("update_slot", slot, 0, "Ok", 0, FALSE)

SV_mark_stale ==
    /\ stv' = [stv EXCEPT !.last_update = mark_stale(stv.last_update)]
    /\ last' = Op("mark_stale", 0, 0, "Ok", 0, FALSE)

SV_update(value, slot) ==
    /\ stv' = update(stv, value, slot)
    /\ last' = Op("update", slot, value, "Ok", 0, FALSE)

SV_reset ==
    /\ stv' = reset(stv)
    /\ last' = Op("reset", 0, 0, "Ok", 0, FALSE)

SV_is_stale(slot) ==
    /\ last' = Op("is_stale", slot, 0, is_stale(stv.last_update, slot).err,
                  0, is_stale(stv.last_update, slot).val)
    /\ UNCHANGED stv

SV_slots_elapsed(slot) ==
    /\ last' = Op("slots_elapsed", slot, 0,
                  slots_elapsed(stv.last_update, slot).err,
                  slots_elapsed(stv.last_update, slot).val, FALSE)
    /\ UNCHANGED stv

----------------------------------------------------------------------------
(* Providers, in ordinal order (the fields of Allocations) *)

Providers == <<"Solend", "Port", "Jet">>
ProviderSet == {Providers[i] : i \in 1..Len(Providers)}

----------------------------------------------------------------------------
(* asset_container/rate.rs: verify_weights over Rate                       *)
(* A Rate is a scaled integer; WAD is the scaled value of Rate::one().     *)

WAD == 10000
Rate_one == WAD
Rate_zero == 0
Rate_from_percent(pct) == pct * (WAD \div 100)

\* Rate::try_add: checked addition of the scaled values
try_add(a, b) == IF a + b <= MaxRate THEN Ok(a + b) ELSE Err("AddOverflow")

\* .max() of the container's values; None for an empty container
RECURSIVE MaxFrom(_, _)
MaxFrom(w, i) ==
    IF i = Len(Providers) THEN w[Providers[i]]
    ELSE IF w[Providers[i]] > MaxFrom(w, i + 1)
         THEN w[Providers[i]] ELSE MaxFrom(w, i + 1)

\* try_fold(Rate::zero(), |acc, x| acc.try_add(*x)) from provider i on:
\* the first failing addition ends the fold with its error
RECURSIVE TryFoldFrom(_, _, _)
TryFoldFrom(w, i, acc) ==
    IF i > Len(Providers) THEN Ok(acc)
    ELSE IF ~IsOk(try_add(acc, w[Providers[i]]))
         THEN try_add(acc, w[Providers[i]])
         ELSE TryFoldFrom(w, i + 1, acc + w[Providers[i]])

verify_weights_StrictCap(w, allocation_cap_pct) ==
    IF Len(Providers) = 0 THEN Err("InvalidProposedWeights")
    ELSE IF ~IsOk(TryFoldFrom(w, 1, Rate_zero))
         THEN Err(TryFoldFrom(w, 1, Rate_zero).err)
    ELSE IF TryFoldFrom(w, 1, Rate_zero).val = Rate_one
            /\ MaxFrom(w, 1) < Rate_from_percent(allocation_cap_pct)
         THEN Ok(0)
         ELSE Err("InvalidProposedWeights")

\* the maximum first (None, and InvalidProposedWeights, only for an empty
\* container), then the checked sum, whose error is returned as it is,
\* then sum == Rate::one() && max <= cap
verify_weights(w, allocation_cap_pct) ==
    IF Len(Providers) = 0 THEN Err("InvalidProposedWeights")
    ELSE IF ~IsOk(TryFoldFrom(w, 1, Rate_zero))
         THEN Err(TryFoldFrom(w, 1, Rate_zero).err)
    ELSE IF TryFoldFrom(w, 1, Rate_zero).val = Rate_one
            /\ MaxFrom(w, 1) <= Rate_from_percent(allocation_cap_pct)
         THEN Ok(0)
         ELSE Err("InvalidProposedWeights")

\* the proposed weights and caps the verifier is run on
PctInputs == {0, 1, 2, 40, 59, 100}
RateInputs == {Rate_from_percent(p) : p \in PctInputs} \cup {WAD \div 3, MaxRate}
CapInputs == {34, 58, 59, 100}

VerifyWeights ==
    /\ last' = Op("verify_weights", 0, 0, verify_weights(weights, cap).err,
                  0, FALSE)
    /\ UNCHANGED <<weights, cap>>

----------------------------------------------------------------------------
(* state.rs: the Vault record *)

HALT_RECONCILES == 1
HALT_REFRESHED == 2
HALT_DEPOSITS_WITHDRAWS == 4
HALT_ALL == 7

\* VaultFlags::from_bits(bits) is Some iff no bit outside HALT_ALL is set
from_bits_ok(bits) == bits \in 0..HALT_ALL

contains_Exact(bits, flag) == bits = flag

\* VaultFlags::contains, for a single-bit flag
contains(bits, flag) == (bits \div flag) % 2 = 1

Allocations_default == [p \in ProviderSet |-> SlotTrackecValue_default]

\* Vault::set_flags
set_flags_NoCheck(v, bits) ==
    [err |-> "Ok", vault |-> [v EXCEPT !.bitflags = bits]]

set_flags(v, bits) ==
    IF from_bits_ok(bits)
    THEN [err |-> "Ok", vault |-> [v EXCEPT !.bitflags = bits]]
    ELSE [err |-> "InvalidVaultFlags", vault |-> v]

----------------------------------------------------------------------------
(* instructions/deposit.rs *)

\* pro-rata LP tokens for a deposit; None when the result leaves u64
calc_reserve_to_lp(reserve_token_amount, lp_token_supply, reserve_tokens_in_vault) ==
    IF reserve_tokens_in_vault = 0
    THEN Ok(reserve_token_amount)
    ELSE IF (lp_token_supply * reserve_token_amount)
                \div reserve_tokens_in_vault <= MaxU64
         THEN Ok((lp_token_supply * reserve_token_amount)
                    \div reserve_tokens_in_vault)
         ELSE Err("None")

\* token::transfer from the user's reserve account to the vault's
transfer(t, amount) ==
    IF t.user_reserve < amount \/ t.vault_reserve + amount > MaxU64
    THEN [err |-> "TokenError", tok |-> t]
    ELSE [err |-> "Ok",
          tok |-> [t EXCEPT !.user_reserve = @ - amount,
                            !.vault_reserve = @ + amount]]

\* token::mint_to of the vault's LP token
mint_to(t, amount) ==
    IF t.lp_supply + amount > MaxU64
    THEN [err |-> "TokenError", tok |-> t]
    ELSE [err |-> "Ok", tok |-> [t EXCEPT !.lp_supply = @ + amount]]

Deposit_constraint_FlagOnly(v, slot) ==
    IF v.value.last_update.stale THEN "VaultIsNotRefreshed" ELSE "Ok"

\* the account constraint on the vault: !is_stale(clock.slot)? @ VaultIsNotRefreshed
Deposit_constraint(v, slot) ==
    IF ~IsOk(is_stale(v.value.last_update, slot))
    THEN is_stale(v.value.last_update, slot).err
    ELSE IF is_stale(v.value.last_update, slot).val
         THEN "VaultIsNotRefreshed"
         ELSE "Ok"

exceeds_cap_Inclusive(total_value, deposit_cap) == total_value >= deposit_cap

\* if total_value > deposit_cap
exceeds_cap(total_value, deposit_cap) == total_value > deposit_cap

\* the outcome of the handler at its return: the error, the accounts as the
\* handler and its token calls left them, the LP amount computed and the
\* number of token calls issued (0: none, 1: the transfer, 2: also the mint)
Ret(err, v, t, lp, calls) ==
    [err |-> err, vault |-> v, tok |-> t, lp |-> lp, calls |-> calls]

handler_mint_Unchecked(v, t, amount, lp) ==
    IF mint_to(t, lp).err /= "Ok"
    THEN Ret("Ok", [v EXCEPT !.value.value = @ + amount], t, lp, 2)
    ELSE Ret("Ok", [v EXCEPT !.value.value = @ + amount],
             mint_to(t, lp).tok, lp, 2)

\* from token::mint_to on: the mint, then the update of vault.value.value
handler_mint(v, t, amount, lp) ==
    IF mint_to(t, lp).err /= "Ok"
    THEN Ret(mint_to(t, lp).err, v, t, lp, 2)
    ELSE IF ~IsOk(checked_add(v.value.value, amount))
         THEN Ret("MathError", v, mint_to(t, lp).tok, lp, 2)
         ELSE Ret("Ok", [v EXCEPT !.value.value = @ + amount],
                  mint_to(t, lp).tok, lp, 2)

handler_NoCap(v, t, reserve_token_amount) ==
    IF ~from_bits_ok(v.bitflags) THEN Ret("Panic", v, t, 0, 0)
    ELSE IF contains(v.bitflags, HALT_DEPOSITS_WITHDRAWS)
         THEN Ret("HaltedVault", v, t, 0, 0)
    ELSE IF ~IsOk(calc_reserve_to_lp(reserve_token_amount, t.lp_supply,
                                     v.value.value))
         THEN Ret("MathError", v, t, 0, 0)
    ELSE IF ~IsOk(checked_add(v.value.value, reserve_token_amount))
         THEN Ret("OverflowError", v, t, 0, 0)
    ELSE IF transfer(t, reserve_token_amount).err /= "Ok"
         THEN Ret(transfer(t, reserve_token_amount).err, v, t, 0, 1)
    ELSE handler_mint(v, transfer(t, reserve_token_amount).tok,
                      reserve_token_amount,
                      calc_reserve_to_lp(reserve_token_amount, t.lp_supply,
                                         v.value.value).val)

handler(v, t, reserve_token_amount) ==
    IF ~from_bits_ok(v.bitflags) THEN Ret("Panic", v, t, 0, 0)
    ELSE IF contains(v.bitflags, HALT_DEPOSITS_WITHDRAWS)
         THEN Ret("HaltedVault", v, t, 0, 0)
    ELSE IF ~IsOk(calc_reserve_to_lp(reserve_token_amount, t.lp_supply,
                                     v.value.value))
         THEN Ret("MathError", v, t, 0, 0)
    ELSE IF ~IsOk(checked_add(v.value.value, reserve_token_amount))
         THEN Ret("OverflowError", v, t, 0, 0)
    ELSE IF exceeds_cap(v.value.value + reserve_token_amount,
                        v.config.deposit_cap)
         THEN Ret("DepositCapError", v, t, 0, 0)
    ELSE IF transfer(t, reserve_token_amount).err /= "Ok"
         THEN Ret(transfer(t, reserve_token_amount).err, v, t, 0, 1)
    ELSE handler_mint(v, transfer(t, reserve_token_amount).tok,
                      reserve_token_amount,
                      calc_reserve_to_lp(reserve_token_amount, t.lp_supply,
                                         v.value.value).val)

DepositInstruction_Restamp(v, t, slot, amount) ==
    IF Deposit_constraint(v, slot) /= "Ok"
    THEN Ret(Deposit_constraint(v, slot), v, t, 0, 0)
    ELSE IF handler(v, t, amount).err /= "Ok"
         THEN Ret(handler(v, t, amount).err, v, t, handler(v, t, amount).lp,
                  handler(v, t, amount).calls)
         ELSE [handler(v, t, amount) EXCEPT
                   !.vault.value.last_update = update_slot(@, slot)]

\* The Deposit instruction: the account constraint, then the handler.  An
\* instruction that returns an error is aborted: the accounts keep the
\* contents they had before it, token calls already issued included.
DepositInstruction(v, t, slot, amount) ==
    IF Deposit_constraint(v, slot) /= "Ok"
    THEN Ret(Deposit_constraint(v, slot), v, t, 0, 0)
    ELSE IF handler(v, t, amount).err /= "Ok"
         THEN Ret(handler(v, t, amount).err, v, t, handler(v, t, amount).lp,
                  handler(v, t, amount).calls)
         ELSE handler(v, t, amount)

----------------------------------------------------------------------------
(* state.rs: Vault::calculate_fees, with the fee formulas of math.rs *)

BPS_DENOMINATOR == 10000
SLOTS_PER_YEAR == 2

\* carry_fee = profit * fee_bps / 10000, the product checked
calc_carry_fees(profit, fee_bps) ==
    IF IsOk(checked_mul(profit, fee_bps))
    THEN Ok((profit * fee_bps) \div BPS_DENOMINATOR)
    ELSE Err("OverflowError")

\* mgmt_fee = aum * fee_bps * slots_elapsed / (10000 * slots per year),
\* the products checked from left to right
calc_mgmt_fees(aum, fee_bps, elapsed) ==
    IF IsOk(checked_mul(aum, fee_bps))
       /\ IsOk(checked_mul(aum * fee_bps, elapsed))
    THEN Ok(((aum * fee_bps * elapsed) \div BPS_DENOMINATOR)
                \div SLOTS_PER_YEAR)
    ELSE Err("OverflowError")

calculate_fees_AbsDiff(v, new_vault_value, slot) ==
    IF ~IsOk(slots_elapsed(v.value.last_update, slot)) THEN Err("MathError")
    ELSE IF ~IsOk(calc_carry_fees(
                IF new_vault_value >= v.value.value
                THEN new_vault_value - v.value.value
                ELSE v.value.value - new_vault_value,
                v.config.fee_carry_bps))
         THEN Err("OverflowError")
    ELSE IF ~IsOk(calc_mgmt_fees(new_vault_value, v.config.fee_mgmt_bps,
                      slots_elapsed(v.value.last_update, slot).val))
         THEN Err(calc_mgmt_fees(new_vault_value, v.config.fee_mgmt_bps,
                      slots_elapsed(v.value.last_update, slot).val).err)
    ELSE IF ~IsOk(checked_add(
                calc_carry_fees(
                    IF new_vault_value >= v.value.value
                    THEN new_vault_value - v.value.value
                    ELSE v.value.value - new_vault_value,
                    v.config.fee_carry_bps).val,
                calc_mgmt_fees(new_vault_value, v.config.fee_mgmt_bps,
                    slots_elapsed(v.value.last_update, slot).val).val))
         THEN Err("OverflowError")
    ELSE Ok(calc_carry_fees(
                IF new_vault_value >= v.value.value
                THEN new_vault_value - v.value.value
                ELSE v.value.value - new_vault_value,
                v.config.fee_carry_bps).val
            + calc_mgmt_fees(new_vault_value, v.config.fee_mgmt_bps,
                  slots_elapsed(v.value.last_update, slot).val).val)

calculate_fees(v, new_vault_value, slot) ==
    IF ~IsOk(slots_elapsed(v.value.last_update, slot)) THEN Err("MathError")
    ELSE IF ~IsOk(calc_carry_fees(
                saturating_sub(new_vault_value, v.value.value),
                v.config.fee_carry_bps))
         THEN Err("OverflowError")
    ELSE IF ~IsOk(calc_mgmt_fees(new_vault_value, v.config.fee_mgmt_bps,
                      slots_elapsed(v.value.last_update, slot).val))
         THEN Err(calc_mgmt_fees(new_vault_value, v.config.fee_mgmt_bps,
                      slots_elapsed(v.value.last_update, slot).val).err)
    ELSE IF ~IsOk(checked_add(
                calc_carry_fees(
                    saturating_sub(new_vault_value, v.value.value),
                    v.config.fee_carry_bps).val,
                calc_mgmt_fees(new_vault_value, v.config.fee_mgmt_bps,
                    slots_elapsed(v.value.last_update, slot).val).val))
         THEN Err("OverflowError")
    ELSE Ok(calc_carry_fees(
                saturating_sub(new_vault_value, v.value.value),
                v.config.fee_carry_bps).val
            + calc_mgmt_fees(new_vault_value, v.config.fee_mgmt_bps,
                  slots_elapsed(v.value.last_update, slot).val).val)

----------------------------------------------------------------------------
(* adapters/port.rs: RefreshPort::update_actual_allocation *)

\* CollateralExchangeRate::collateral_to_liquidity: the collateral amount
\* divided by the rate (collateral per unit of liquidity), floored to u64
collateral_to_liquidity(rate, collateral_amount) ==
    IF rate = 0 THEN Err("MathOverflow")
    ELSE IF (collateral_amount * WAD) \div rate > MaxU64
         THEN Err("MathOverflow")
         ELSE Ok((collateral_amount * WAD) \div rate)

update_actual_allocation_RawShares(v, t, p, slot, ext) ==
    IF ~ext.ok
    THEN [err |-> "ProviderError", vault |-> v, port |-> p]
    ELSE IF ~IsOk(collateral_to_liquidity(ext.rate, t.vault_port_lp))
         THEN [err |-> collateral_to_liquidity(ext.rate, t.vault_port_lp).err,
               vault |-> v, port |-> p]
         ELSE [err |-> "Ok",
               vault |-> [v EXCEPT !.actual_allocations["Port"] =
                            update(@, t.vault_port_lp, slot)],
               port |-> [p EXCEPT !.rate = ext.rate]]

update_actual_allocation_ElapsedStamp(v, t, p, slot, ext) ==
    IF ~ext.ok
    THEN [err |-> "ProviderError", vault |-> v, port |-> p]
    ELSE IF ~IsOk(collateral_to_liquidity(ext.rate, t.vault_port_lp))
         THEN [err |-> collateral_to_liquidity(ext.rate, t.vault_port_lp).err,
               vault |-> v, port |-> p]
         ELSE [err |-> "Ok",
               vault |-> [v EXCEPT !.actual_allocations["Port"] =
                            update(@, collateral_to_liquidity(ext.rate,
                                          t.vault_port_lp).val,
                                   slot - @.last_update.slot)],
               port |-> [p EXCEPT !.rate = ext.rate]]

\* ext is the outcome of the refresh_port_reserve call into the Port
\* program: a failure, or the reserve with its refreshed exchange rate
update_actual_allocation(v, t, p, slot, ext) ==
    IF ~ext.ok
    THEN [err |-> "ProviderError", vault |-> v, port |-> p]
    ELSE IF ~IsOk(collateral_to_liquidity(ext.rate, t.vault_port_lp))
         THEN [err |-> collateral_to_liquidity(ext.rate, t.vault_port_lp).err,
               vault |-> v, port |-> p]
         ELSE [err |-> "Ok",
               vault |-> [v EXCEPT !.actual_allocations["Port"] =
                            update(@, collateral_to_liquidity(ext.rate,
                                          t.vault_port_lp).val, slot)],
               port |-> [p EXCEPT !.rate = ext.rate]]

\* the refresh of another provider: stamps its entry with the value the
\* provider reports, at the current slot
update_actual_allocation_of(v, provider, value, slot) ==
    [v EXCEPT !.actual_allocations[provider] = update(@, value, slot)]

\* the refresh of the vault's total value: the reserve held by the vault
\* plus the value deployed at the providers, stamped at the current slot
consolidate_refresh(v, t, slot) ==
    IF t.vault_reserve
        + v.actual_allocations["Solend"].value
        + v.actual_allocations["Port"].value
        + v.actual_allocations["Jet"].value > MaxU64
    THEN [err |-> "OverflowError", vault |-> v]
    ELSE [err |-> "Ok",
          vault |-> [v EXCEPT !.value = update(@,
                        t.vault_reserve
                        + v.actual_allocations["Solend"].value
                        + v.actual_allocations["Port"].value
                        + v.actual_allocations["Jet"].value, slot)]]

----------------------------------------------------------------------------
(* Initial values *)

VaultConfig(deposit_cap, fee_carry_bps, fee_mgmt_bps) ==
    [deposit_cap |-> deposit_cap, fee_carry_bps |-> fee_carry_bps,
     fee_mgmt_bps |-> fee_mgmt_bps, referral_fee_pct |-> 0,
     allocation_cap_pct |-> 99]

Vault(value, config) ==
    [bitflags |-> 0, value |-> value,
     target_allocations |-> Allocations_default, config |-> config,
     actual_allocations |-> Allocations_default]

Tokens(user_reserve, lp_supply, vault_port_lp) ==
    [user_reserve |-> user_reserve, vault_reserve |-> 0,
     lp_supply |-> lp_supply, vault_port_lp |-> vault_port_lp]

IdleVault == Vault(SlotTrackecValue_default, VaultConfig(MaxU64, 0, 0))
IdleTok == Tokens(0, 0, 0)
IdlePort == [rate |-> WAD]
IdleWeights == [p \in ProviderSet |-> Rate_zero]

----------------------------------------------------------------------------
(* The deposit machine: the clock, the halt flags, the refresh of the      *)
(* total value and the Deposit instruction                                 *)

DepositCaps == {3, MaxU64}
DepositAmounts == {0, 1, 2, MaxU64 - 1}
FlagInputs == {0, 3, 4, 5, 7, 8, 12}
UserReserve == 4

AdvanceClock ==
    /\ clock < MaxSlot
    /\ clock' = clock + 1
    /\ last' = Op("clock", clock + 1, 0, "Ok", 0, FALSE)
    /\ UNCHANGED <<vault, tok, port>>

SetFlags(bits) ==
    /\ vault' = set_flags(vault, bits).vault
    /\ last' = Op("set_flags", clock, bits, set_flags(vault, bits).err, 0, FALSE)
    /\ UNCHANGED <<clock, tok, port>>

ConsolidateRefresh ==
    /\ vault' = consolidate_refresh(vault, tok, clock).vault
    /\ last' = Op("consolidate_refresh", clock, 0,
                  consolidate_refresh(vault, tok, clock).err, 0, FALSE)
    /\ UNCHANGED <<clock, tok, port>>

Deposit(amount) ==
    /\ vault' = DepositInstruction(vault, tok, clock, amount).vault
    /\ tok' = DepositInstruction(vault, tok, clock, amount).tok
    /\ last' = [Op("deposit", clock, amount,
                   DepositInstruction(vault, tok, clock, amount).err,
                   DepositInstruction(vault, tok, clock, amount).lp, FALSE)
                EXCEPT !.calls =
                   DepositInstruction(vault, tok, clock, amount).calls]
    /\ UNCHANGED <<clock, port>>

Init ==
    /\ clock = 0
    /\ \E c \in DepositCaps, st \in BOOLEAN :
          vault = Vault([value |-> 0,
                         last_update |-> [slot |-> 0, stale |-> st]],
                        VaultConfig(c, 0, 0))
    /\ \E l \in {0, MaxU64 - 1} : tok = Tokens(UserReserve, l, 0)
    /\ port = IdlePort
    /\ stv = SlotTrackecValue_default
    /\ weights = IdleWeights
    /\ cap = 100
    /\ input = 0
    /\ output = 0
    /\ last = NoOp

Next ==
    /\ UNCHANGED <<stv, weights, cap, input, output>>
    /\ \/ AdvanceClock
       \/ \E bits \in FlagInputs : SetFlags(bits)
       \/ ConsolidateRefresh
       \/ \E amount \in DepositAmounts : Deposit(amount)

Spec == Init /\ [][Next]_vars

----------------------------------------------------------------------------
(* The staleness-tracked value on its own *)

\* a Deposit of nothing, at any slot, into a vault whose total value is stv
SV_deposit(slot) ==
    /\ last' = Op("deposit", slot, 0,
                  DepositInstruction(Vault(stv, VaultConfig(MaxU64, 0, 0)),
                                     IdleTok, slot, 0).err, 0, FALSE)
    /\ UNCHANGED stv

InitStale ==
    /\ clock = 0
    /\ vault = IdleVault
    /\ tok = IdleTok
    /\ port = IdlePort
    /\ stv = SlotTrackecValue_default
    /\ weights = IdleWeights
    /\ cap = 100
    /\ input = 0
    /\ output = 0
    /\ last = NoOp

NextStale ==
    /\ UNCHANGED <<clock, vault, tok, port, weights, cap, input, output>>
    /\ \/ \E slot \in Slots : SV_new(slot)
       \/ \E slot \in Slots : SV_update_slot(slot)
       \/ SV_mark_stale
       \/ \E value \in StvValues, slot \in Slots : SV_update(value, slot)
       \/ SV_reset
       \/ \E slot \in Slots : SV_is_stale(slot)
       \/ \E slot \in Slots : SV_slots_elapsed(slot)
       \/ \E slot \in Slots : SV_deposit(slot)

SpecStale == InitStale /\ [][NextStale]_vars

----------------------------------------------------------------------------
(* The weight verifier on its own *)

InitWeights ==
    /\ clock = 0
    /\ vault = IdleVault
    /\ tok = IdleTok
    /\ port = IdlePort
    /\ stv = SlotTrackecValue_default
    /\ weights \in [ProviderSet -> RateInputs]
    /\ cap \in CapInputs
    /\ input = 0
    /\ output = 0
    /\ last = NoOp

NextWeights ==
    /\ UNCHANGED <<clock, vault, tok, port, stv, input, output>>
    /\ VerifyWeights

SpecWeights == InitWeights /\ [][NextWeights]_vars

----------------------------------------------------------------------------
(* The refresh machine: the clock and the refresh of each provider's       *)
(* actual allocation                                                       *)

PortRates == {0, WAD \div 2, 2 * WAD}
PortLpBalances == {3, MaxU64 - 1}
OtherValues == {1}
PortRefreshOutcomes ==
    {[ok |-> FALSE, rate |-> 0]} \cup {[ok |-> TRUE, rate |-> r] : r \in PortRates}

RefreshPort(ext) ==
    /\ vault' = update_actual_allocation(vault, tok, port, clock, ext).vault
    /\ port' = update_actual_allocation(vault, tok, port, clock, ext).port
    /\ last' = Op("refresh_port", clock, 0,
                  update_actual_allocation(vault, tok, port, clock, ext).err,
                  0, FALSE)
    /\ UNCHANGED <<clock, tok>>

RefreshOther(provider, value) ==
    /\ vault' = update_actual_allocation_of(vault, provider, value, clock)
    /\ last' = Op("refresh_other", clock, value, "Ok", 0, FALSE)
    /\ UNCHANGED <<clock, tok, port>>

InitRefresh ==
    /\ clock = 0
    /\ \E st \in BOOLEAN :
          vault = [IdleVault EXCEPT
                     !.actual_allocations["Port"].last_update.stale = st]
    /\ \E b \in PortLpBalances : tok = Tokens(0, 0, b)
    /\ port = IdlePort
    /\ stv = SlotTrackecValue_default
    /\ weights = IdleWeights
    /\ cap = 100
    /\ input = 0
    /\ output = 0
    /\ last = NoOp

NextRefresh ==
    /\ UNCHANGED <<stv, weights, cap, input, output>>
    /\ \/ AdvanceClock
       \/ \E ext \in PortRefreshOutcomes : RefreshPort(ext)
       \/ \E p \in ProviderSet \ {"Port"}, value \in OtherValues :
             RefreshOther(p, value)

SpecRefresh == InitRefresh /\ [][NextRefresh]_vars

----------------------------------------------------------------------------
(* The fee calculation on its own *)

FeeConfigs == {<<0, 0>>, <<5000, 10000>>, <<10000, 5000>>}
FeeValues == {0, 1, 2, 3}
NewValues == {0, 1, 2, 3, 4, MaxU64}

CalculateFees(new_vault_value, slot) ==
    /\ last' = Op("calculate_fees", slot, new_vault_value,
                  calculate_fees(vault, new_vault_value, slot).err,
                  calculate_fees(vault, new_vault_value, slot).val, FALSE)
    /\ UNCHANGED <<clock, vault, tok, port>>

InitFees ==
    /\ clock = 0
    /\ \E value \in FeeValues, slot \in Slots, f \in FeeConfigs :
          vault = Vault([value |-> value,
                         last_update |-> [slot |-> slot, stale |-> FALSE]],
                        VaultConfig(MaxU64, f[1], f[2]))
    /\ tok = IdleTok
    /\ port = IdlePort
    /\ stv = SlotTrackecValue_default
    /\ weights = IdleWeights
    /\ cap = 100
    /\ input = 0
    /\ output = 0
    /\ last = NoOp

NextFees ==
    /\ UNCHANGED <<stv, weights, cap, input, output>>
    /\ \E new_vault_value \in NewValues, slot \in Slots :
          CalculateFees(new_vault_value, slot)

SpecFees == InitFees /\ [][NextFees]_vars

----------------------------------------------------------------------------
(* state.rs: VaultConfig::new on its own *)

VaultConfig_new_CapInclusive(config) ==
    IF config.fee_carry_bps > 10000 THEN Err("InvalidFeeConfig")
    ELSE IF config.fee_mgmt_bps > 10000 THEN Err("InvalidFeeConfig")
    ELSE IF config.referral_fee_pct > 50 THEN Err("InvalidReferralFeeConfig")
    ELSE IF ~(config.allocation_cap_pct \in 34..100)
         THEN Err("InvalidAloocationCap")
    ELSE Ok([deposit_cap |-> config.deposit_cap,
             fee_carry_bps |-> config.fee_carry_bps,
             fee_mgmt_bps |-> config.fee_mgmt_bps,
             referral_fee_pct |-> config.referral_fee_pct,
             allocation_cap_pct |-> config.allocation_cap_pct,
             rebalance_mode |-> config.rebalance_mode,
             strategy_type |-> config.strategy_type,
             padding |-> <<0, 0, 0>>])

\* (34..100).contains(&allocation_cap_pct) excludes 100
VaultConfig_new(config) ==
    IF config.fee_carry_bps > 10000 THEN Err("InvalidFeeConfig")
    ELSE IF config.fee_mgmt_bps > 10000 THEN Err("InvalidFeeConfig")
    ELSE IF config.referral_fee_pct > 50 THEN Err("InvalidReferralFeeConfig")
    ELSE IF ~(config.allocation_cap_pct \in 34..99)
         THEN Err("InvalidAloocationCap")
    ELSE Ok([deposit_cap |-> config.deposit_cap,
             fee_carry_bps |-> config.fee_carry_bps,
             fee_mgmt_bps |-> config.fee_mgmt_bps,
             referral_fee_pct |-> config.referral_fee_pct,
             allocation_cap_pct |-> config.allocation_cap_pct,
             rebalance_mode |-> config.rebalance_mode,
             strategy_type |-> config.strategy_type,
             padding |-> <<0, 0, 0>>])

\* the configuration payloads VaultConfig::new is run on
VaultConfigArgs ==
    [deposit_cap : {0, MaxU64},
     fee_carry_bps : {0, 10000, 10001},
     fee_mgmt_bps : {0, 10000, 10001},
     referral_fee_pct : {0, 50, 51},
     allocation_cap_pct : {33, 34, 99, 100},
     rebalance_mode : {"Calculator", "ProofChecker"},
     strategy_type : {"MaxYield", "EqualAllocation"}]

ConfigNew ==
    /\ output' = VaultConfig_new(input)
    /\ last' = Op("VaultConfig_new", 0, 0, VaultConfig_new(input).err, 0, FALSE)
    /\ UNCHANGED input

InitConfig ==
    /\ clock = 0
    /\ vault = IdleVault
    /\ tok = IdleTok
    /\ port = IdlePort
    /\ stv = SlotTrackecValue_default
    /\ weights = IdleWeights
    /\ cap = 100
    /\ input \in VaultConfigArgs
    /\ output = 0
    /\ last = NoOp

NextConfig ==
    /\ UNCHANGED <<clock, vault, tok, port, stv, weights, cap>>
    /\ ConfigNew

SpecConfig == InitConfig /\ [][NextConfig]_vars

----------------------------------------------------------------------------
(* asset_container/mod.rs and iter.rs: AssetContainerGeneric<T, N>          *)
(* T is a small integer type whose default is 0                             *)

None == <<>>
Some(v) == <<v>>
unwrap(o) == o[1]

T_default == 0
MaxPairs == 2

\* `provider as usize`, counted from 1
ordinal(provider) == CHOOSE i \in 1..Len(Providers) : Providers[i] = provider

AssetContainer_default_Unpopulated ==
    [inner |-> [i \in 1..Len(Providers) |-> None]]

AssetContainer_default ==
    [inner |-> [i \in 1..Len(Providers) |-> Some(T_default)]]

\* Index: the stored value, or the missing-index panic
index(c, provider) ==
    IF c.inner[ordinal(provider)] = None
    THEN Err("Panic")
    ELSE Ok(unwrap(c.inner[ordinal(provider)]))

\* IndexMut followed by an assignment: acc[provider] = v
index_mut(c, provider, v) ==
    IF c.inner[ordinal(provider)] = None
    THEN Err("Panic")
    ELSE Ok([c EXCEPT !.inner[ordinal(provider)] = Some(v)])

RECURSIVE fold(_, _, _)
fold(acc, pairs, i) ==
    IF i > Len(pairs)
    THEN Ok(acc)
    ELSE LET r == index_mut(acc, pairs[i][1], pairs[i][2])
         IN  IF IsOk(r) THEN fold(r.val, pairs, i + 1) ELSE r

from_iter_FirstWins(pairs) ==
    fold(AssetContainer_default,
         [i \in 1..Len(pairs) |-> pairs[Len(pairs) + 1 - i]], 1)

from_iter(pairs) == fold(AssetContainer_default, pairs, 1)

\* the closures handed to apply and apply_owned
Fns == {"identity", "succ", "ordinal"}

Call(f, provider, v) ==
    CASE f = "identity" -> v
      [] f = "succ" -> (v + 1) % 3
      [] f = "ordinal" -> ordinal(provider) - 1

\* the fallible closures handed to try_apply: g, failing on some providers
TryFns == [g : {"identity", "ordinal"}, fails : SUBSET ProviderSet]

ErrorOf(provider) ==
    [Solend |-> "ErrSolend", Port |-> "ErrPort", Jet |-> "ErrJet"][provider]

TryCall(f, provider, v) ==
    IF provider \in f.fails
    THEN Err(ErrorOf(provider))
    ELSE Ok(Call(f.g, provider, v))

\* Provider::iter().map(|provider| (provider, f(provider, &self[provider])))
RECURSIVE map_apply(_, _, _, _)
map_apply(c, f, i, pairs) ==
    IF i > Len(Providers)
    THEN Ok(pairs)
    ELSE LET item == index(c, Providers[i])
         IN  IF IsOk(item)
             THEN map_apply(c, f, i + 1,
                      Append(pairs, <<Providers[i],
                                      Call(f, Providers[i], item.val)>>))
             ELSE item

apply(c, f) ==
    LET pairs == map_apply(c, f, 1, <<>>)
    IN  IF IsOk(pairs) THEN from_iter(pairs.val) ELSE pairs

\* self.inner[provider as usize].take().expect(..) for each provider in turn
RECURSIVE map_apply_owned(_, _, _, _)
map_apply_owned(c, f, i, pairs) ==
    IF i > Len(Providers)
    THEN Ok(pairs)
    ELSE IF c.inner[i] = None
         THEN Err("Panic")
         ELSE map_apply_owned([c EXCEPT !.inner[i] = None], f, i + 1,
                  Append(pairs, <<Providers[i],
                                  Call(f, Providers[i], unwrap(c.inner[i]))>>))

apply_owned(c, f) ==
    LET pairs == map_apply_owned(c, f, 1, <<>>)
    IN  IF IsOk(pairs) THEN from_iter(pairs.val) ELSE pairs

\* collect() into Result: items are pulled one by one, the first Err stops
\* the pulling and is returned; invoked lists the providers f was called on
RECURSIVE try_collect(_, _, _, _, _)
try_collect(c, f, i, pairs, invoked) ==
    IF i > Len(Providers)
    THEN [res |-> from_iter(pairs), invoked |-> invoked]
    ELSE LET item == index(c, Providers[i])
             r == TryCall(f, Providers[i], item.val)
         IN  IF ~IsOk(item)
             THEN [res |-> item, invoked |-> invoked]
             ELSE IF IsOk(r)
                  THEN try_collect(c, f, i + 1,
                           Append(pairs, <<Providers[i], r.val>>),
                           Append(invoked, Providers[i]))
                  ELSE [res |-> r, invoked |-> Append(invoked, Providers[i])]

RECURSIVE try_collect_all(_, _, _, _, _, _)
try_collect_all(c, f, i, pairs, invoked, first) ==
    IF i > Len(Providers)
    THEN [res |-> IF IsOk(first) THEN from_iter(pairs) ELSE first,
          invoked |-> invoked]
    ELSE LET r == TryCall(f, Providers[i], index(c, Providers[i]).val)
         IN  try_collect_all(c, f, i + 1,
                 IF IsOk(r) THEN Append(pairs, <<Providers[i], r.val>>)
                            ELSE pairs,
                 Append(invoked, Providers[i]),
                 IF IsOk(first) /\ ~IsOk(r) THEN r ELSE first)

try_apply_NoShortCircuit(c, f) ==
    try_collect_all(c, f, 1, <<>>, <<>>, Ok(0))

try_apply(c, f) == try_collect(c, f, 1, <<>>, <<>>)

\* IntoIterator for &AssetContainerGeneric and AssetContainerIterator::next
into_iter_SkipFirst(c) == [inner |-> c, inner_iter |-> 2]

into_iter(c) == [inner |-> c, inner_iter |-> 1]

AssetContainerIterator_next(it) ==
    IF it.inner_iter > Len(Providers)
    THEN [item |-> None, panic |-> FALSE, it |-> it]
    ELSE LET provider == Providers[it.inner_iter]
         IN  [item |-> IF IsOk(index(it.inner, provider))
                       THEN Some(<<provider, index(it.inner, provider).val>>)
                       ELSE None,
              panic |-> ~IsOk(index(it.inner, provider)),
              it |-> [it EXCEPT !.inner_iter = @ + 1]]

\* IntoIterator for AssetContainerGeneric and OwnedAssetContainerIterator::next
into_iter_owned(c) == [inner |-> c, inner_iter |-> 1]

OwnedAssetContainerIterator_next(it) ==
    IF it.inner_iter > Len(Providers)
    THEN [item |-> None, panic |-> FALSE, it |-> it]
    ELSE LET provider == Providers[it.inner_iter]
             taken == it.inner.inner[ordinal(provider)]
         IN  [item |-> IF taken = None
                       THEN None
                       ELSE Some(<<provider, unwrap(taken)>>),
              panic |-> taken = None,
              it |-> [inner |-> [it.inner EXCEPT
                                    !.inner[ordinal(provider)] = None],
                      inner_iter |-> it.inner_iter + 1]]

\* a for loop over the borrowed iterator: the items until next() is None
RECURSIVE items(_, _)
items(it, acc) ==
    LET n == AssetContainerIterator_next(it)
    IN  IF n.panic THEN Err("Panic")
        ELSE IF n.item = None THEN Ok(acc)
        ELSE items(n.it, Append(acc, unwrap(n.item)))

RECURSIVE items_owned(_, _)
items_owned(it, acc) ==
    LET n == OwnedAssetContainerIterator_next(it)
    IN  IF n.panic THEN Err("Panic")
        ELSE IF n.item = None THEN Ok(acc)
        ELSE items_owned(n.it, Append(acc, unwrap(n.item)))

\* the state of the container machine: input is the container at hand
TValues == {1, 2}
PairSeqs ==
    UNION {[1..n -> ProviderSet \X TValues] : n \in 0..MaxPairs}

\* the last container operation: its receiver, its argument and its result
ContainerOp(op, self, arg, res) ==
    [op |-> op, self |-> self, arg |-> arg, res |-> res]

ContainerDefault ==
    /\ input' = AssetContainer_default
    /\ output' = 0
    /\ last' = ContainerOp("default", 0, 0, "Ok")

Collect(pairs) ==
    /\ input' = IF IsOk(from_iter(pairs)) THEN from_iter(pairs).val ELSE input
    /\ output' = 0
    /\ last' = ContainerOp("from_iter", 0, pairs, from_iter(pairs).err)

Apply(f) ==
    /\ input' = IF IsOk(apply(input, f)) THEN apply(input, f).val ELSE input
    /\ output' = 0
    /\ last' = ContainerOp("apply", input, f, apply(input, f).err)

ApplyOwned(f) ==
    /\ input' = IF IsOk(apply_owned(input, f))
                THEN apply_owned(input, f).val ELSE input
    /\ output' = 0
    /\ last' = ContainerOp("apply_owned", input, f, apply_owned(input, f).err)

TryApply(f) ==
    /\ input' = IF IsOk(try_apply(input, f).res)
                THEN try_apply(input, f).res.val ELSE input
    /\ output' = try_apply(input, f)
    /\ last' = ContainerOp("try_apply", input, f, try_apply(input, f).res.err)

Iterate ==
    /\ output' = items(into_iter(input), <<>>)
    /\ last' = ContainerOp("iter", input, 0,
                           items(into_iter(input), <<>>).err)
    /\ UNCHANGED input

IterateOwned ==
    /\ output' = items_owned(into_iter_owned(input), <<>>)
    /\ last' = ContainerOp("into_iter", input, 0,
                           items_owned(into_iter_owned(input), <<>>).err)
    /\ UNCHANGED input

InitContainer ==
    /\ clock = 0
    /\ vault = IdleVault
    /\ tok = IdleTok
    /\ port = IdlePort
    /\ stv = SlotTrackecValue_default
    /\ weights = IdleWeights
    /\ cap = 100
    /\ input = AssetContainer_default
    /\ output = 0
    /\ last = NoOp

NextContainer ==
    /\ UNCHANGED <<clock, vault, tok, port, stv, weights, cap>>
    /\ \/ ContainerDefault
       \/ \E pairs \in PairSeqs : Collect(pairs)
       \/ \E f \in Fns : Apply(f)
       \/ \E f \in Fns : ApplyOwned(f)
       \/ \E f \in TryFns : TryApply(f)
       \/ Iterate
       \/ IterateOwned

SpecContainer == InitContainer /\ [][NextContainer]_vars

----------------------------------------------------------------------------
(* adapters/port.rs: the Port market adapter (LendingMarket for            *)
(* PortAccounts) and ReserveAccessor for the Port Reserve                   *)

\* the scaled width of the 128-bit value of Port's Rate
MaxU128 == 3 * MaxU64 * WAD

liquidity_to_collateral_Ceil(rate, liquidity_amount) ==
    IF rate * liquidity_amount > MaxU128 THEN Err("MathOverflow")
    ELSE IF (rate * liquidity_amount + WAD - 1) \div WAD > MaxU64
         THEN Err("MathOverflow")
         ELSE Ok((rate * liquidity_amount + WAD - 1) \div WAD)

\* CollateralExchangeRate::liquidity_to_collateral: the rate times the
\* liquidity amount (try_mul on the 128-bit rate), floored to u64
liquidity_to_collateral(rate, liquidity_amount) ==
    IF rate * liquidity_amount > MaxU128 THEN Err("MathOverflow")
    ELSE IF (rate * liquidity_amount) \div WAD > MaxU64
         THEN Err("MathOverflow")
         ELSE Ok((rate * liquidity_amount) \div WAD)

\* the exchange rate of the reserve account as the market last left it
collateral_exchange_rate(p) == Ok(p.rate)

convert_amount_reserve_to_lp(p, amount) ==
    IF IsOk(collateral_exchange_rate(p))
    THEN liquidity_to_collateral(collateral_exchange_rate(p).val, amount)
    ELSE collateral_exchange_rate(p)

convert_amount_lp_to_reserve(p, amount) ==
    IF IsOk(collateral_exchange_rate(p))
    THEN collateral_to_liquidity(collateral_exchange_rate(p).val, amount)
    ELSE collateral_exchange_rate(p)

\* the result of an adapter operation: its Result, the calls it made into
\* the Port program, and the accounts afterwards
Cpi(err, calls, t, p) == [err |-> err, calls |-> calls, tok |-> t, port |-> p]

\* port_anchor_adaptor::deposit_reserve: the market takes amount reserve
\* tokens from the vault's holding account and pays market-share tokens at
\* the exchange rate, or refuses (accept is the market's own say)
deposit_reserve(t, p, amount, accept) ==
    LET collateral == liquidity_to_collateral(p.rate, amount)
        call == [call |-> "deposit_reserve", amount |-> amount,
                 res |-> "ProviderError"]
    IN  IF /\ accept
           /\ amount <= t.vault_reserve
           /\ IsOk(collateral)
           /\ IsOk(checked_add(t.vault_port_lp, collateral.val))
           /\ IsOk(checked_add(p.liquidity.available_amount, amount))
        THEN Cpi("Ok", <<[call EXCEPT !.res = "Ok"]>>,
                 [t EXCEPT !.vault_reserve = @ - amount,
                           !.vault_port_lp = @ + collateral.val],
                 [p EXCEPT !.liquidity.available_amount = @ + amount])
        ELSE Cpi("ProviderError", <<call>>, t, p)

\* port_anchor_adaptor::redeem: the market burns amount market-share tokens
\* of the vault and pays reserve tokens at the exchange rate, or refuses
redeem_reserve(t, p, amount, accept) ==
    LET liquidity == collateral_to_liquidity(p.rate, amount)
        call == [call |-> "redeem", amount |-> amount,
                 res |-> "ProviderError"]
    IN  IF /\ accept
           /\ amount <= t.vault_port_lp
           /\ IsOk(liquidity)
           /\ liquidity.val <= p.liquidity.available_amount
           /\ IsOk(checked_add(t.vault_reserve, liquidity.val))
        THEN Cpi("Ok", <<[call EXCEPT !.res = "Ok"]>>,
                 [t EXCEPT !.vault_port_lp = @ - amount,
                           !.vault_reserve = @ + liquidity.val],
                 [p EXCEPT !.liquidity.available_amount = @ - liquidity.val])
        ELSE Cpi("ProviderError", <<call>>, t, p)

deposit_NoZeroCheck(t, p, amount, accept) ==
    deposit_reserve(t, p, amount, accept)

deposit(t, p, amount, accept) ==
    IF amount = 0
    THEN Cpi("Ok", <<>>, t, p)
    ELSE deposit_reserve(t, p, amount, accept)

redeem(t, p, amount, accept) ==
    IF amount = 0
    THEN Cpi("Ok", <<>>, t, p)
    ELSE redeem_reserve(t, p, amount, accept)

reserve_with_deposit_Wrapping(reserve, allocation) ==
    Ok([reserve EXCEPT !.liquidity.available_amount =
                           (@ + allocation) % (MaxU64 + 1)])

\* the clone of the reserve with allocation added to its available amount
reserve_with_deposit(reserve, allocation) ==
    IF IsOk(checked_add(reserve.liquidity.available_amount, allocation))
    THEN Ok([reserve EXCEPT !.liquidity.available_amount =
                 checked_add(reserve.liquidity.available_amount,
                             allocation).val])
    ELSE Err("OverflowError")

\* the Port market machine: the reserve account, the vault's two token
\* accounts at the market, and the adapter operations on them
MarketRates == {0, WAD \div 2, WAD, 2 * WAD, 4 * WAD}
MarketAmounts == {0, 1, 2, 3}
ConvertAmounts == {0, 1, 2, 3, 7, MaxU64 \div 2, MaxU64}
DepositAllocations == {0, 1, 2, MaxU64}
Reserves ==
    [rate : MarketRates,
     liquidity : [available_amount : {0, 5, MaxU64 - 1},
                  borrowed_amount_wads : {0, WAD}]]

PortDeposit(amount, accept) ==
    /\ tok' = deposit(tok, port, amount, accept).tok
    /\ port' = deposit(tok, port, amount, accept).port
    /\ output' = deposit(tok, port, amount, accept)
    /\ last' = Op("port_deposit", 0, amount,
                  deposit(tok, port, amount, accept).err, 0, accept)

PortRedeem(amount, accept) ==
    /\ tok' = redeem(tok, port, amount, accept).tok
    /\ port' = redeem(tok, port, amount, accept).port
    /\ output' = redeem(tok, port, amount, accept)
    /\ last' = Op("port_redeem", 0, amount,
                  redeem(tok, port, amount, accept).err, 0, accept)

\* reserve tokens converted to market shares and the shares converted back
ConvertRoundTrip(amount) ==
    /\ output' = [lp |-> convert_amount_reserve_to_lp(port, amount),
                  reserve |->
                      IF IsOk(convert_amount_reserve_to_lp(port, amount))
                      THEN convert_amount_lp_to_reserve(port,
                               convert_amount_reserve_to_lp(port, amount).val)
                      ELSE Err("NotRun")]
    /\ last' = Op("round_trip", 0, amount,
                  convert_amount_reserve_to_lp(port, amount).err, 0, FALSE)
    /\ UNCHANGED <<tok, port>>

ReserveWithDeposit(allocation) ==
    /\ output' = reserve_with_deposit(port, allocation)
    /\ last' = Op("reserve_with_deposit", 0, allocation,
                  reserve_with_deposit(port, allocation).err, 0, FALSE)
    /\ UNCHANGED <<tok, port>>

InitMarket ==
    /\ clock = 0
    /\ vault = IdleVault
    /\ tok \in {[IdleTok EXCEPT !.vault_reserve = r, !.vault_port_lp = l] :
                   r \in {0, UserReserve}, l \in {0, 3}}
    /\ port \in Reserves
    /\ stv = SlotTrackecValue_default
    /\ weights = IdleWeights
    /\ cap = 100
    /\ input = 0
    /\ output = 0
    /\ last = NoOp

NextMarket ==
    /\ UNCHANGED <<clock, vault, stv, weights, cap, input>>
    /\ \/ \E amount \in MarketAmounts, accept \in BOOLEAN :
              PortDeposit(amount, accept)
       \/ \E amount \in MarketAmounts, accept \in BOOLEAN :
              PortRedeem(amount, accept)
       \/ \E amount \in ConvertAmounts : ConvertRoundTrip(amount)
       \/ \E allocation \in DepositAllocations : ReserveWithDeposit(allocation)

SpecMarket == InitMarket /\ [][NextMarket]_vars

----------------------------------------------------------------------------
(* Properties *)

\* whether the vault's total value is not fresh at the current slot
NotFresh(v, slot) ==
    v.value.last_update.stale \/ slot - v.value.last_update.slot >= 2

\* C1: a Deposit attempted while the vault's total value is not fresh (the
\* stale flag is set, or the current slot minus the stamped slot is 2 or
\* more) fails with VaultIsNotRefreshed, issues no token call and leaves
\* the token balances and the vault, vault.value included, unchanged.
C1_StaleDepositRejected ==
    [][(last'.op = "deposit" /\ NotFresh(vault, clock))
        => /\ last'.res = "VaultIsNotRefreshed"
           /\ last'.calls = 0
           /\ tok' = tok
           /\ vault' = vault]_vars

C1_Witness ==
    /\ last.op = "deposit"
    /\ last.res = "VaultIsNotRefreshed"
    /\ ~vault.value.last_update.stale
    /\ clock - vault.value.last_update.slot >= 2

\* whether the handler of a deposit is entered: the account constraint holds
HandlerRuns(v, slot) == Deposit_constraint(v, slot) = "Ok"

\* C2 as stated, for a vault that is not halted: whenever value + amount
\* exceeds deposit_cap the handler rejects the deposit with DepositCapError,
\* before any token call and without changing vault.value; a total equal to
\* the cap passes the check.
C2_Original ==
    [][(last'.op = "deposit" /\ HandlerRuns(vault, clock)
            /\ ~contains(vault.bitflags, 4))
        => /\ (vault.value.value + last'.amount > vault.config.deposit_cap
                => /\ last'.res = "DepositCapError"
                   /\ last'.calls = 0
                   /\ vault'.value = vault.value)
           /\ (vault.value.value + last'.amount = vault.config.deposit_cap
                => last'.res /= "DepositCapError")]_vars

\* C2 amended: whenever value + amount exceeds deposit_cap the handler
\* rejects the deposit before any token call and without changing
\* vault.value or a token balance; the error is DepositCapError exactly when
\* the vault is not halted for deposits, the LP amount is computed and the
\* sum fits 64 bits, and HaltedVault, MathError or OverflowError otherwise;
\* a total equal to the cap is not rejected by the cap check.
C2_CapRejectsBeforeTransfer ==
    [][(last'.op = "deposit" /\ HandlerRuns(vault, clock))
        => /\ (vault.value.value + last'.amount > vault.config.deposit_cap
                => /\ last'.res \in {"DepositCapError", "HaltedVault",
                                     "MathError", "OverflowError"}
                   /\ last'.calls = 0
                   /\ vault' = vault
                   /\ tok' = tok
                   /\ (last'.res = "DepositCapError"
                        <=> /\ ~contains(vault.bitflags, 4)
                            /\ IsOk(calc_reserve_to_lp(last'.amount,
                                       tok.lp_supply, vault.value.value))
                            /\ vault.value.value + last'.amount <= MaxU64))
           /\ (vault.value.value + last'.amount = vault.config.deposit_cap
                => last'.res /= "DepositCapError")]_vars

C2_Witness ==
    /\ last.op = "deposit"
    /\ last.res = "DepositCapError"
    /\ vault.value.value > 0
    /\ vault.value.value <= vault.config.deposit_cap

\* C3: a deposit is all-or-nothing.  Either it succeeds and the reserve
\* transfer, the LP mint and the increase of vault.value.value by the amount
\* have all taken effect, or it fails and no balance and no field of the
\* vault has changed, also when the failure comes after the transfer was
\* issued.
C3_DepositAllOrNothing ==
    [][last'.op = "deposit"
        => \/ /\ last'.res = "Ok"
              /\ tok'.user_reserve = tok.user_reserve - last'.amount
              /\ tok'.vault_reserve = tok.vault_reserve + last'.amount
              /\ tok'.lp_supply = tok.lp_supply + last'.out
              /\ vault'.value.value = vault.value.value + last'.amount
           \/ /\ last'.res /= "Ok"
              /\ tok' = tok
              /\ vault' = vault]_vars

\* a deposit that failed in the mint, after its transfer was issued
C3_Witness ==
    /\ last.op = "deposit"
    /\ last.res = "TokenError"
    /\ last.calls = 2
    /\ last.out > 0
    /\ tok.user_reserve = UserReserve
    /\ tok.vault_reserve = 0

\* the mathematical sum of the weights
WeightSum(w) == w["Solend"] + w["Port"] + w["Jet"]
WeightMax(w) ==
    CHOOSE m \in {w[p] : p \in ProviderSet} : \A p \in ProviderSet : w[p] <= m
Pct(a, b, c) ==
    [p \in ProviderSet |->
        IF p = "Solend" THEN a * 100 ELSE IF p = "Port" THEN b * 100 ELSE c * 100]

\* C4: verify_weights succeeds if and only if the weights sum to exactly 1
\* and the largest weight is at most the cap; the comparison with the cap is
\* inclusive ({1%, 59%, 40%} passes with cap 59 and fails with cap 58), and
\* sums above 1 and below 1 are both rejected.
C4_VerifyWeightsIff ==
    last.op = "verify_weights"
        => /\ (last.res = "Ok")
                <=> (WeightSum(weights) = 10000 /\ WeightMax(weights) <= cap * 100)
           /\ (weights = Pct(1, 59, 40) /\ cap = 59 => last.res = "Ok")
           /\ (weights = Pct(1, 59, 40) /\ cap = 58 => last.res /= "Ok")
           /\ (WeightSum(weights) > 10000 => last.res /= "Ok")
           /\ (WeightSum(weights) < 10000 => last.res /= "Ok")

C4_Witness ==
    /\ last.op = "verify_weights"
    /\ weights = Pct(1, 59, 40)
    /\ cap = 59
    /\ last.res = "Ok"

\* C5: every rejection by verify_weights is InvalidProposedWeights, whether
\* the sum overflowed, the sum is not 1, or a weight is above the cap.
C5_SingleErrorKind ==
    (last.op = "verify_weights" /\ last.res /= "Ok")
        => last.res = "InvalidProposedWeights"

\* C6: a value stamped at slot T and not marked stale is fresh when queried
\* at T and T+1 and stale at T+2 and at every later slot; a value marked
\* stale is stale at every slot.  For a query at or after the stamp,
\* fresh = not stale-flagged and (current - T) < 2.
C6_FreshnessThresholdExact ==
    /\ (last.op = "is_stale" /\ stv.last_update.stale)
            => (last.res = "Ok" /\ last.flag)
    /\ (last.op = "is_stale" /\ last.slot >= stv.last_update.slot)
            => /\ last.res = "Ok"
               /\ ~last.flag <=> (~stv.last_update.stale
                                  /\ last.slot - stv.last_update.slot < 2)
    /\ ~stv.last_update.stale
            => \A c \in Slots :
                  /\ c \in {stv.last_update.slot, stv.last_update.slot + 1}
                        => is_stale(stv.last_update, c) = Ok(FALSE)
                  /\ c >= stv.last_update.slot + 2
                        => is_stale(stv.last_update, c) = Ok(TRUE)

C6_Witness ==
    /\ last.op = "is_stale"
    /\ ~stv.last_update.stale
    /\ stv.last_update.slot > 0
    /\ last.slot = stv.last_update.slot + 2
    /\ last.flag

\* C7: update_slot(slot) sets the stamped slot and clears the stale flag;
\* mark_stale() sets the flag and keeps the stamped slot; update(value, slot)
\* also sets the value; reset() sets the value to 0 and the stale flag and
\* keeps the stamped slot.  update_slot and mark_stale keep the value.
C7_StampFrame ==
    [][/\ last'.op = "update_slot"
            => /\ stv'.last_update = [slot |-> last'.slot, stale |-> FALSE]
               /\ stv'.value = stv.value
       /\ last'.op = "mark_stale"
            => /\ stv'.last_update = [slot |-> stv.last_update.slot,
                                      stale |-> TRUE]
               /\ stv'.value = stv.value
       /\ last'.op = "update"
            => stv' = [value |-> last'.amount,
                       last_update |-> [slot |-> last'.slot, stale |-> FALSE]]
       /\ last'.op = "reset"
            => stv' = [value |-> 0,
                       last_update |-> [slot |-> stv.last_update.slot,
                                        stale |-> TRUE]]]_vars

C7_Witness ==
    /\ last.op = "reset"
    /\ stv.value = 0
    /\ stv.last_update.stale
    /\ stv.last_update.slot > 0

\* C8: a successful update_actual_allocation for Port sets
\* actual_allocations[Port] to the vault's Port share balance converted to
\* reserve at the provider's refreshed exchange rate (floored), stamped with
\* the current slot and with the stale flag cleared, and leaves the other
\* providers' entries, the target allocations and the total value unchanged;
\* when the market refresh or the conversion fails the error is returned and
\* the vault, actual_allocations[Port] included, is unchanged.
C8_PortRefreshFrame ==
    [][last'.op = "refresh_port"
        => IF last'.res = "Ok"
           THEN /\ port'.rate > 0
                /\ vault'.actual_allocations["Port"]
                     = [value |-> (tok.vault_port_lp * 10000) \div port'.rate,
                        last_update |-> [slot |-> clock, stale |-> FALSE]]
                /\ \A p \in ProviderSet \ {"Port"} :
                      vault'.actual_allocations[p] = vault.actual_allocations[p]
                /\ vault'.target_allocations = vault.target_allocations
                /\ vault'.value = vault.value
           ELSE /\ vault' = vault
                /\ last'.res \in {"ProviderError", "MathOverflow"}]_vars

C8_Witness ==
    /\ last.op = "refresh_port"
    /\ last.res = "Ok"
    /\ clock > 0
    /\ vault.actual_allocations["Port"].value = 2 * tok.vault_port_lp
    /\ vault.actual_allocations["Port"].last_update = [slot |-> clock, stale |-> FALSE]
    /\ vault.actual_allocations["Jet"].value = 1

\* C9: over any sequence of refreshes and clock advances, the stamped slot
\* of every provider's actual_allocations entry never decreases.
C9_StampOnlyForward ==
    [][\A p \in ProviderSet :
          vault'.actual_allocations[p].last_update.slot
              >= vault.actual_allocations[p].last_update.slot]_vars

\* the Port entry stamped at the last slot, the Solend entry at an earlier one
C9_Witness ==
    /\ last.op = "refresh_port"
    /\ last.res = "Ok"
    /\ vault.actual_allocations["Port"].last_update.slot = MaxSlot
    /\ vault.actual_allocations["Solend"].last_update.slot \in 1..(MaxSlot - 1)

\* the fees the formulas give, without bounds on the intermediate values
ExpectedCarry(prev, new, bps) ==
    ((IF new > prev THEN new - prev ELSE 0) * bps) \div 10000
ExpectedMgmt(new, bps, elapsed) == (new * bps * elapsed) \div (10000 * SLOTS_PER_YEAR)

\* C10: calculate_fees(new_value, slot) returns carry_fee + mgmt_fee, the
\* carry fee on max(0, new_value - previous value) and the management fee on
\* new_value and elapsed = slot - previous update slot; a drop in value
\* gives a carry fee of 0 and is no error; the result is 0 when the value
\* did not grow and no slot elapsed; the vault is not modified.
C10_FeesFormula ==
    [][last'.op = "calculate_fees"
        => /\ vault' = vault
           /\ last'.res = "Ok"
                => /\ last'.slot >= vault.value.last_update.slot
                   /\ last'.out
                        = ExpectedCarry(vault.value.value, last'.amount,
                                        vault.config.fee_carry_bps)
                          + ExpectedMgmt(last'.amount, vault.config.fee_mgmt_bps,
                                last'.slot - vault.value.last_update.slot)
                   /\ (last'.amount <= vault.value.value
                       /\ last'.slot = vault.value.last_update.slot)
                        => last'.out = 0
           /\ (/\ last'.amount < vault.value.value
               /\ last'.slot >= vault.value.last_update.slot
               /\ last'.amount * vault.config.fee_mgmt_bps <= MaxU64
               /\ last'.amount * vault.config.fee_mgmt_bps
                    * (last'.slot - vault.value.last_update.slot) <= MaxU64)
                => (last'.res = "Ok" /\ last'.out >= 0)]_vars

\* a drop in value with slots elapsed: only the management fee is charged
C10_Witness ==
    /\ last.op = "calculate_fees"
    /\ last.res = "Ok"
    /\ last.amount < vault.value.value
    /\ last.slot > vault.value.last_update.slot
    /\ vault.config.fee_carry_bps > 0
    /\ last.out = ExpectedMgmt(last.amount, vault.config.fee_mgmt_bps,
                               last.slot - vault.value.last_update.slot)
    /\ last.out > 0

C12_ConfigAcceptedIff ==
    last.op = "VaultConfig_new"
        => /\ (output.err = "Ok")
                <=> (/\ input.fee_carry_bps <= 10000
                     /\ input.fee_mgmt_bps <= 10000
                     /\ input.referral_fee_pct <= 50
                     /\ 34 <= input.allocation_cap_pct
                     /\ input.allocation_cap_pct < 100)
           /\ input.allocation_cap_pct = 100 => output.err /= "Ok"
           /\ output.err = "Ok"
                => \A f \in DOMAIN input : output.val[f] = input[f]
           /\ output.err /= "Ok"
                => /\ output.val = 0
                   /\ output.err \in {"InvalidFeeConfig",
                                      "InvalidReferralFeeConfig",
                                      "InvalidAloocationCap"}

\* an accepted configuration at the upper edge of every limit
C12_Witness ==
    /\ last.op = "VaultConfig_new"
    /\ output.err = "Ok"
    /\ input.fee_carry_bps = 10000
    /\ input.fee_mgmt_bps = 10000
    /\ input.referral_fee_pct = 50
    /\ input.allocation_cap_pct = 99
    /\ output.val.allocation_cap_pct = 99
    /\ output.val.deposit_cap = MaxU64

\* C13: set_flags(bits) rejects bits outside HALT_ALL with InvalidVaultFlags
\* and leaves the stored flags (and the rest of the vault) unchanged, and
\* otherwise stores exactly bits; so the stored bitset is always a subset of
\* HALT_ALL and flags() never takes its panic branch.
C13_FlagsAlwaysValid ==
    /\ [](/\ vault.bitflags \in 0..HALT_ALL
          /\ from_bits_ok(vault.bitflags)
          /\ last.res /= "Panic")
    /\ [][last'.op = "set_flags"
            => IF last'.amount \in 0..HALT_ALL
               THEN /\ last'.res = "Ok"
                    /\ vault' = [vault EXCEPT !.bitflags = last'.amount]
               ELSE /\ last'.res = "InvalidVaultFlags"
                    /\ vault' = vault]_vars

\* a mix of a valid and an invalid bit is refused while a halt flag is stored
C13_Witness ==
    /\ last.op = "set_flags"
    /\ last.amount = 12
    /\ last.res = "InvalidVaultFlags"
    /\ vault.bitflags = HALT_DEPOSITS_WITHDRAWS

\* C14: every container that can be observed (built by default(), collected
\* from pairs, or returned by apply, apply_owned or a successful try_apply)
\* holds a value for every provider, so no operation reaches the
\* missing-index panic; a default-constructed container holds T's default
\* for every provider.
C14_AlwaysPopulated ==
    /\ last.res /= "Panic"
    /\ \A provider \in ProviderSet : IsOk(index(input, provider))
    /\ last.op = "default"
         => \A provider \in ProviderSet :
                index(input, provider).val = T_default
    /\ (last.op = "try_apply" /\ last.res = "Ok")
         => \A provider \in ProviderSet : IsOk(index(output.res.val, provider))

\* apply_owned has returned a container with three different values
C14_Witness ==
    /\ last.op = "apply_owned"
    /\ last.arg = "succ"
    /\ last.res = "Ok"
    /\ last.self.inner = <<Some(1), Some(2), Some(0)>>
    /\ input.inner = <<Some(2), Some(0), Some(1)>>

\* C15: on a fully populated container apply with the identity function
\* gives a container equal to the original, and iteration, borrowed or
\* owned, yields exactly one (provider, value) entry per provider in ordinal
\* order, each value being the one stored for that provider.
C15_IdentityAndIteration ==
    /\ (last.op = "apply" /\ last.arg = "identity")
         => (last.res = "Ok" /\ input = last.self)
    /\ last.op \in {"iter", "into_iter"}
         => output = Ok([i \in 1..Len(Providers) |->
                           <<Providers[i], unwrap(last.self.inner[i])>>])

\* owned iteration over a container holding three different values
C15_Witness ==
    /\ last.op = "into_iter"
    /\ last.self.inner = <<Some(1), Some(2), Some(0)>>
    /\ output = Ok(<<<<"Solend", 1>>, <<"Port", 2>>, <<"Jet", 0>>>>)

\* C16: a container collected from a finite sequence of (Provider, T) pairs
\* holds, for each provider, the value of the last pair naming it, and T's
\* default for a provider that no pair names.
C16_LastPairWins ==
    last.op = "from_iter"
        => /\ last.res = "Ok"
           /\ \A provider \in ProviderSet :
                LET named == {i \in 1..Len(last.arg) :
                                 last.arg[i][1] = provider}
                IN  index(input, provider).val =
                        IF named = {}
                        THEN T_default
                        ELSE last.arg[CHOOSE i \in named :
                                         \A j \in named : j <= i][2]

\* one provider named twice with different values, the others unnamed
C16_Witness ==
    /\ last.op = "from_iter"
    /\ last.arg = <<<<"Port", 1>>, <<"Port", 2>>>>
    /\ input.inner = <<Some(0), Some(2), Some(0)>>

\* C17: try_apply visits providers in ordinal order and fails fast: it
\* returns the error of the first provider for which f fails, calls f for no
\* later provider, and returns a fully populated container of the results
\* only when f succeeds for every provider.
C17_TryApplyFailsFast ==
    last.op = "try_apply"
         => LET f == last.arg
                failing == {i \in 1..Len(Providers) : Providers[i] \in f.fails}
                first == CHOOSE i \in failing : \A j \in failing : i <= j
            IN  IF failing = {}
                THEN /\ last.res = "Ok"
                     /\ output.invoked = Providers
                     /\ output.res.val = input
                     /\ \A i \in 1..Len(Providers) :
                            input.inner[i] =
                                Some(Call(f.g, Providers[i],
                                          unwrap(last.self.inner[i])))
                ELSE /\ last.res = ErrorOf(Providers[first])
                     /\ output.res = Err(ErrorOf(Providers[first]))
                     /\ output.invoked = SubSeq(Providers, 1, first)
                     /\ input = last.self

\* f fails for the second and the third provider: the second one's error
C17_Witness ==
    /\ last.op = "try_apply"
    /\ last.arg.fails = {"Port", "Jet"}
    /\ last.res = "ErrPort"
    /\ output.invoked = <<"Solend", "Port">>

\* C18: the Port adapter's deposit(amount) and redeem(amount) succeed
\* without any call to the external market when amount = 0; for amount > 0
\* they make exactly one external call, carrying that amount, and the
\* outcome of that call, a failure included, is what they return.
C18_PortCallOnlyWhenNonZero ==
    last.op \in {"port_deposit", "port_redeem"}
        => IF last.amount = 0
           THEN output.err = "Ok" /\ output.calls = <<>>
           ELSE /\ Len(output.calls) = 1
                /\ output.calls[1].amount = last.amount
                /\ output.calls[1].call =
                       (IF last.op = "port_deposit"
                        THEN "deposit_reserve" ELSE "redeem")
                /\ output.err = output.calls[1].res
                /\ last.res = output.err

\* a deposit of a positive amount that the market refuses
C18_Witness ==
    /\ last.op = "port_deposit"
    /\ last.amount = 2
    /\ last.res = "ProviderError"
    /\ Len(output.calls) = 1

\* C19: reserve_with_deposit(amount) returns a new reserve view whose
\* available liquidity is the original's plus amount and whose other fields
\* equal the original's, and leaves the original reserve unchanged; when the
\* sum does not fit 64 bits it fails with OverflowError and produces no view.
C19_ReserveWithDepositFrame ==
    /\ [](last.op = "reserve_with_deposit"
            => IF port.liquidity.available_amount + last.amount <= MaxU64
               THEN /\ output.err = "Ok"
                    /\ output.val.liquidity.available_amount =
                           port.liquidity.available_amount + last.amount
                    /\ [output.val EXCEPT !.liquidity.available_amount =
                            port.liquidity.available_amount] = port
               ELSE output = Err("OverflowError"))
    /\ [][last'.op = "reserve_with_deposit" => port' = port]_vars

\* a deposit that would carry the available liquidity past 64 bits
C19_Witness ==
    /\ last.op = "reserve_with_deposit"
    /\ last.amount = 2
    /\ port.liquidity.available_amount = MaxU64 - 1
    /\ last.res = "OverflowError"

\* C20: for every reserve amount and exchange rate, converting reserve to
\* shares and the shares back to reserve never gives more than the original
\* amount; each conversion is the exact quotient rounded down.
C20_RoundTripNeverGains ==
    last.op = "round_trip"
        => /\ IsOk(output.lp)
                => /\ output.lp.val * WAD <= port.rate * last.amount
                   /\ port.rate * last.amount < (output.lp.val + 1) * WAD
           /\ (IsOk(output.lp) /\ IsOk(output.reserve))
                => /\ output.reserve.val <= last.amount
                   /\ output.reserve.val * port.rate <= output.lp.val * WAD
                   /\ output.lp.val * WAD
                          < (output.reserve.val + 1) * port.rate

\* a round trip in which both floors lose: 3 -> 1 share -> 2
C20_Witness ==
    /\ last.op = "round_trip"
    /\ last.amount = 3
    /\ port.rate = WAD \div 2
    /\ output.lp = Ok(1)
    /\ output.reserve = Ok(2)

\* C21: the Deposit instruction checks that refresh has been called in the
\* same slot: a deposit at slot S passes the account check only if the
\* vault's total value was last stamped at slot S.
C21_SameSlotOnly ==
    [][(last'.op = "deposit" /\ HandlerRuns(vault, clock))
        => vault.value.last_update.slot = clock]_vars

\* C22: whenever the vault's flags contain HALT_DEPOSITS_WITHDRAWS (alone,
\* with other flags, or as HALT_ALL) the deposit handler fails with
\* HaltedVault before any amount is computed and without a transfer, a mint
\* or a change to the vault; flags made only of HALT_RECONCILES and
\* HALT_REFRESHED do not block a deposit: it ends as it does with no flag.
C22_HaltBlocksDeposit ==
    [][(last'.op = "deposit" /\ HandlerRuns(vault, clock))
        => IF vault.bitflags \in {4, 5, 6, 7}
           THEN /\ last'.res = "HaltedVault"
                /\ last'.calls = 0
                /\ last'.out = 0
                /\ tok' = tok
                /\ vault' = vault
           ELSE /\ last'.res /= "HaltedVault"
                /\ last'.res = handler([vault EXCEPT !.bitflags = 0], tok,
                                       last'.amount).err]_vars

\* a deposit into a fresh vault halted by a combination of flags
C22_Witness ==
    /\ last.op = "deposit"
    /\ last.res = "HaltedVault"
    /\ vault.bitflags = 5
    /\ last.amount = 1
    /\ ~NotFresh(vault, clock)

\* C23: a successful deposit of amount increases vault.value.value by exactly
\* amount and changes nothing else in the vault: the stamp and stale flag of
\* the total value, the allocations, the config and the flags stay as they
\* were.  No deposit moves the stamp, so a deposit two or more slots after
\* the stamp is rejected as not refreshed, earlier deposits notwithstanding.
C23_DepositOnlyAddsValue ==
    [][last'.op = "deposit"
        => /\ last'.res = "Ok"
                => vault' = [vault EXCEPT !.value.value = @ + last'.amount]
           /\ vault'.value.last_update = vault.value.last_update
           /\ (~vault.value.last_update.stale
               /\ clock - vault.value.last_update.slot >= 2)
                => last'.res = "VaultIsNotRefreshed"]_vars

\* a successful deposit one slot after the stamp, on top of an earlier one
C23_Witness ==
    /\ last.op = "deposit"
    /\ last.res = "Ok"
    /\ last.amount = 1
    /\ vault.value.value = 3
    /\ ~vault.value.last_update.stale
    /\ clock = vault.value.last_update.slot + 1

\* C24: is_stale(current) on a value whose stale flag is set returns true for
\* every current slot, slots earlier than the stamp included, without error;
\* with the flag clear and current earlier than the stamp it returns
\* MathError and no boolean, and a deposit attempted in that state fails with
\* MathError, not with VaultIsNotRefreshed.
C24_IsStaleBeforeStamp ==
    /\ (last.op = "is_stale" /\ stv.last_update.stale)
            => (last.res = "Ok" /\ last.flag)
    /\ (last.op = "is_stale" /\ ~stv.last_update.stale
            /\ last.slot < stv.last_update.slot)
            => (last.res = "MathError" /\ ~last.flag)
    /\ (last.op = "deposit" /\ ~stv.last_update.stale
            /\ last.slot < stv.last_update.slot)
            => last.res = "MathError"
    /\ (last.op = "deposit" /\ stv.last_update.stale)
            => last.res = "VaultIsNotRefreshed"

\* a deposit at a slot before the stamp of a value that is not flagged
C24_Witness ==
    /\ last.op = "deposit"
    /\ last.res = "MathError"
    /\ ~stv.last_update.stale
    /\ stv.last_update.slot = 2
    /\ last.slot = 1

\* C25: under a fixed config, if vault.value.value <= config.deposit_cap
\* holds before a deposit attempt it holds after it, whatever the amount,
\* the slot and the outcome; the recorded value never exceeds 64 bits and
\* never decreases in a deposit (it does not wrap).  Starting within the
\* cap, the recorded value therefore stays within the cap.
C25_ValueWithinCap ==
    /\ [](/\ vault.value.value <= vault.config.deposit_cap
          /\ vault.value.value <= MaxU64)
    /\ [][last'.op = "deposit"
            => /\ vault'.config = vault.config
               /\ vault.value.value <= vault.config.deposit_cap
                    => vault'.value.value <= vault'.config.deposit_cap
               /\ vault'.value.value >= vault.value.value
               /\ vault'.value.value <= MaxU64]_vars

\* a deposit refused at the cap after deposits that filled it exactly
C25_Witness ==
    /\ last.op = "deposit"
    /\ last.res = "DepositCapError"
    /\ last.amount = 1
    /\ vault.value.value = vault.config.deposit_cap

\* C26: a staleness-tracked value that update has never stamped is never
\* reported fresh, at any slot: is_stale called on a default-constructed
\* value, or on a LastUpdate just created by new(slot), before any other
\* operation, returns true.
C26_NeverStampedNeverFresh ==
    [][(last.op \in {"init", "new"} /\ last'.op = "is_stale")
        => (last'.res = "Ok" /\ last'.flag)]_vars

====
